---- MODULE Spec2Model ----
(***************************************************************************)
(* Execution core of the RV32I simulator: CPU::new, CPU::execute and the   *)
(* exec_* routines of src/cpu.rs, driven by a fetch/execute/advance loop.  *)
(*                                                                         *)
(* A 32-bit word is the pair <<hi, lo>> of its 16-bit halves, so that all  *)
(* arithmetic stays exact: 0x80000000 is <<32768, 0>>.  i32 and u32 share  *)
(* the representation (an `as` cast between them keeps the bits); signed   *)
(* operations read bit 31 as the sign.                                     *)
(***************************************************************************)
EXTENDS Integers, Sequences, FiniteSets, TLC

\* ------------------------------------------------------------ 32-bit words

H == 2^16

W(hi, lo) == <<hi, lo>>

Zero == W(0, 0)

\* A small natural as a word, and a word below 2^16 as a natural.
Nat32(n) == W(n \div H, n % H)

Lo16(w) == w[2]

\* A small signed integer as the i32 bit pattern.
Int32(n) == IF n >= 0 THEN Nat32(n) ELSE W(H - 1 - ((-n - 1) \div H), H - 1 - ((-n - 1) % H))

\* u32::wrapping_add / i32::wrapping_add (the same bits).
wrapping_add(a, b) ==
    LET lo == a[2] + b[2]
    IN  W((a[1] + b[1] + (lo \div H)) % H, lo % H)

\* u32::wrapping_sub / i32::wrapping_sub.
wrapping_sub(a, b) ==
    LET borrow == IF a[2] < b[2] THEN 1 ELSE 0
    IN  W((a[1] - b[1] - borrow + H) % H, (a[2] - b[2] + H) % H)

IsNeg(a) == a[1] >= 2^15

\* a < b on u32.
LtU(a, b) == a[1] < b[1] \/ (a[1] = b[1] /\ a[2] < b[2])

\* a < b on i32.
LtS(a, b) == IF IsNeg(a) # IsNeg(b) THEN IsNeg(a) ELSE LtU(a, b)

\* Whether a + b leaves the i32 range, and whether it leaves the u32 range.
AddOverflowsI32(a, b) == IsNeg(a) = IsNeg(b) /\ IsNeg(wrapping_add(a, b)) # IsNeg(a)

AddOverflowsU32(a, b) == LtU(wrapping_add(a, b), a)

\* One bit of a, b combined by and, or, xor; then 4 bits at a time by table, and
\* 16 bits as four nibbles.
Bit(m, x, y) ==
    CASE m = "and" -> IF x = 1 /\ y = 1 THEN 1 ELSE 0
      [] m = "or"  -> IF x = 1 \/ y = 1 THEN 1 ELSE 0
      [] m = "xor" -> IF x # y THEN 1 ELSE 0

Nibble(m, a, b) ==
    Bit(m, a % 2, b % 2) + 2 * Bit(m, (a \div 2) % 2, (b \div 2) % 2)
    + 4 * Bit(m, (a \div 4) % 2, (b \div 4) % 2) + 8 * Bit(m, a \div 8, b \div 8)

AndTab == [a \in 0 .. 15 |-> [b \in 0 .. 15 |-> Nibble("and", a, b)]]

OrTab == [a \in 0 .. 15 |-> [b \in 0 .. 15 |-> Nibble("or", a, b)]]

XorTab == [a \in 0 .. 15 |-> [b \in 0 .. 15 |-> Nibble("xor", a, b)]]

Op16(T, a, b) ==
    T[a % 16][b % 16] + 16 * T[(a \div 16) % 16][(b \div 16) % 16]
    + 256 * T[(a \div 256) % 16][(b \div 256) % 16] + 4096 * T[a \div 4096][b \div 4096]

And32(a, b) == W(Op16(AndTab, a[1], b[1]), Op16(AndTab, a[2], b[2]))

Or32(a, b) == W(Op16(OrTab, a[1], b[1]), Op16(OrTab, a[2], b[2]))

Xor32(a, b) == W(Op16(XorTab, a[1], b[1]), Op16(XorTab, a[2], b[2]))

Not32(a) == W(H - 1 - a[1], H - 1 - a[2])

\* a << n, a >> n (logical) and a >> n (arithmetic) for 0 <= n <= 31.
Shl32(a, n) ==
    IF n < 16
    THEN W(((a[1] * 2^n) % H) + (a[2] \div 2^(16 - n)), (a[2] * 2^n) % H)
    ELSE W((a[2] * 2^(n - 16)) % H, 0)

Shr32(a, n) ==
    IF n < 16
    THEN W(a[1] \div 2^n, (a[2] \div 2^n) + ((a[1] % 2^n) * 2^(16 - n)))
    ELSE W(0, a[1] \div 2^(n - 16))

Sar32(a, n) == IF IsNeg(a) THEN Not32(Shr32(Not32(a), n)) ELSE Shr32(a, n)

\* The low 5 bits of a word, as a natural.
Low5(a) == a[2] % 32

\* bool as u32.
Bool32(b) == IF b THEN W(0, 1) ELSE Zero

\* --------------------------------------------------------- instruction fields

\* Major opcodes (instr & 0x7f).
LUI == 55
AUIPC == 23
JAL == 111
JALR == 103
B_TYPE == 99
LOAD == 3
S_TYPE == 35
I_TYPE == 19
R_TYPE == 51
FENCE == 15
CSR == 115

\* funct3 under B_TYPE.
BEQ == 0
BNE == 1
BLT == 4
BGE == 5
BLTU == 6
BGEU == 7

\* funct3 under LOAD.
LB == 0
LH == 1
LW == 2
LBU == 4
LHU == 5
LWU == 6

\* funct3 under S_TYPE.
SB == 0
SH == 1
SW == 2

\* funct3 under I_TYPE, and funct7 under SRI.
ADDI == 0
SLLI == 1
SLTI == 2
SLTIU == 3
XORI == 4
SRI == 5
ORI == 6
ANDI == 7
SRLI == 0
SRAI == 32

\* funct3 under R_TYPE, funct7 under ADDSUB and under SR.
ADDSUB == 0
SLL == 1
SLT == 2
SLTU == 3
XOR == 4
SR == 5
OR == 6
AND == 7
ADD == 0
SUB == 32
SRL == 0
SRA == 32

\* funct3 under CSR.
ECALL == 0
EBREAK == 0
CSRRW == 1
CSRRS == 2
CSRRC == 3
CSRRWI == 5
CSRRSI == 6
CSRRCI == 7

\* (instr >> sh) & mask for a mask below 2^16, as a natural.
Bits(instr, sh, mask) == Lo16(And32(Shr32(instr, sh), W(0, mask)))

rd(instr) == Bits(instr, 7, 31)

rs1(instr) == Bits(instr, 15, 31)

rs2(instr) == Bits(instr, 20, 31)

\* instr[31:20], sign-extended.
imm_i(instr) == Sar32(And32(instr, W(65520, 0)), 20)

\* {instr[31:25], instr[11:7]}, sign-extended.
imm_s(instr) ==
    Or32(Sar32(And32(instr, W(65024, 0)), 20), W(0, Bits(instr, 7, 31)))

\* {instr[31], instr[7], instr[30:25], instr[11:8], 0}, sign-extended.
imm_b(instr) ==
    Or32(Or32(Sar32(And32(instr, W(32768, 0)), 19),
              Shl32(And32(instr, W(0, 128)), 4)),
         Or32(And32(Shr32(instr, 20), W(0, 2016)),
              And32(Shr32(instr, 7), W(0, 30))))

\* instr[31:12] << 12.
imm_u(instr) == And32(instr, W(65535, 61440))

\* {instr[31], instr[19:12], instr[20], instr[30:21], 0}, sign-extended.
imm_j(instr) ==
    Or32(Or32(Sar32(And32(instr, W(32768, 0)), 11),
              And32(instr, W(15, 61440))),
         Or32(And32(Shr32(instr, 9), W(0, 2048)),
              And32(Shr32(instr, 20), W(0, 2046))))

\* The low 5 bits of the I-immediate field.
shamt(instr) == Low5(imm_i(instr))

\* ------------------------------------------------------------------- memory

\* 0x80000000
MEM_BASE == W(32768, 0)

\* Bytes of backing store (the model's region is this small).
MEM_SIZE == 8

MEM_END == wrapping_add(MEM_BASE, Nat32(MEM_SIZE))

\* Whether the `width` bits at `addr` lie in the backing region.
InRange(addr, width) ==
    LET off == wrapping_sub(addr, MEM_BASE)
    IN  off[1] = 0 /\ off[2] + (width \div 8) <= MEM_SIZE

\* BUS::load: the little-endian value of `width` bits at `addr`, zero-extended.
bus_load(bus, addr, width) ==
    LET o == wrapping_sub(addr, MEM_BASE)[2]
    IN  CASE width = 8  -> W(0, bus[o])
          [] width = 16 -> W(0, bus[o] + 256 * bus[o + 1])
          [] width = 32 -> W(bus[o + 2] + 256 * bus[o + 3], bus[o] + 256 * bus[o + 1])

\* BUS::store: the low `width` bits of `val` written at `addr`, little-endian.
bus_store(bus, addr, width, val) ==
    LET o == wrapping_sub(addr, MEM_BASE)[2]
        b0 == val[2] % 256
        b1 == val[2] \div 256
        b2 == val[1] % 256
        b3 == val[1] \div 256
    IN  CASE width = 8  -> [bus EXCEPT ![o] = b0]
          [] width = 16 -> [bus EXCEPT ![o] = b0, ![o + 1] = b1]
          [] width = 32 -> [bus EXCEPT ![o] = b0, ![o + 1] = b1, ![o + 2] = b2, ![o + 3] = b3]

\* ---------------------------------------------------------------------- CPU

VARIABLES
    xregs,            \* CPU.xregs.regs: the 32 integer registers
    pc,               \* CPU.pc
    bus,              \* CPU.bus: the bytes of the backing region, by offset
    overflow_checks,  \* the build: TRUE when integer overflow checks are compiled in
    phase,            \* the driving loop: "ready", "executed" or "aborted"
    status,           \* how the last execute() ended: "none", "ok", "panic", "fault"
    instr,            \* the instruction word of the last execute()
    pre,              \* the CPU as it was when the last execute() was called
    stored,           \* the last SW not followed by another store: <<address, value>>
    steps             \* execute() calls so far

vars == <<xregs, pc, bus, overflow_checks, phase, status, instr, pre, stored, steps>>

Regs == 0 .. 31

cpu_now == [xregs |-> xregs, pc |-> pc, bus |-> bus]

\* How a routine ends: normally, by a panic, or by the bus refusing the access.
Ok(cpu) == [cpu |-> cpu, status |-> "ok"]

Panic(cpu) == [cpu |-> cpu, status |-> "panic"]

Fault(cpu) == [cpu |-> cpu, status |-> "fault"]

SetReg(cpu, r, v) == [cpu EXCEPT !.xregs[r] = v]

SetPc(cpu, v) == [cpu EXCEPT !.pc = v]

\* CPU::new
new ==
    [xregs |-> [r \in Regs |-> IF r = 2 THEN MEM_END ELSE Zero],
     pc    |-> MEM_BASE,
     bus   |-> [o \in 0 .. MEM_SIZE - 1 |-> 0]]

\* CPU::fetch (defined where the word at pc lies in the backing region)
fetch(cpu) == bus_load(cpu.bus, cpu.pc, 32)

exec_lui(cpu, i) == Ok(SetReg(cpu, rd(i), imm_u(i)))

exec_auipc(cpu, i) == Ok(SetReg(cpu, rd(i), wrapping_add(cpu.pc, imm_u(i))))

exec_jal(cpu, i) ==
    LET c1 == SetReg(cpu, rd(i), wrapping_add(cpu.pc, W(0, 4)))
    IN  Ok(SetPc(c1, wrapping_sub(wrapping_add(cpu.pc, imm_j(i)), W(0, 4))))

\* `cpu.pc + 4` is a checked addition; rd is written before rs1 is read.
exec_jalr(cpu, i) ==
    IF overflow_checks /\ AddOverflowsU32(cpu.pc, W(0, 4))
    THEN Panic(cpu)
    ELSE LET c1 == SetReg(cpu, rd(i), wrapping_add(cpu.pc, W(0, 4)))
         IN  Ok(SetPc(c1, And32(wrapping_add(c1.xregs[rs1(i)], imm_i(i)),
                                W(65535, 65534))))

\* The six branches: the target minus 4 when the condition holds.
Branch(cpu, i, taken) ==
    IF taken
    THEN Ok(SetPc(cpu, wrapping_sub(wrapping_add(cpu.pc, imm_b(i)), W(0, 4))))
    ELSE Ok(cpu)

exec_beq(cpu, i) == Branch(cpu, i, cpu.xregs[rs1(i)] = cpu.xregs[rs2(i)])

exec_bne(cpu, i) == Branch(cpu, i, cpu.xregs[rs1(i)] # cpu.xregs[rs2(i)])

\* exec_blt comparing as exec_bltu does.
exec_blt_unsigned(cpu, i) == Branch(cpu, i, LtU(cpu.xregs[rs1(i)], cpu.xregs[rs2(i)]))

exec_blt(cpu, i) == Branch(cpu, i, LtS(cpu.xregs[rs1(i)], cpu.xregs[rs2(i)]))

exec_bge(cpu, i) == Branch(cpu, i, ~LtS(cpu.xregs[rs1(i)], cpu.xregs[rs2(i)]))

exec_bltu(cpu, i) == Branch(cpu, i, LtU(cpu.xregs[rs1(i)], cpu.xregs[rs2(i)]))

exec_bgeu(cpu, i) == Branch(cpu, i, ~LtU(cpu.xregs[rs1(i)], cpu.xregs[rs2(i)]))

\* rs1 + imm_i, the effective address of a load.
LoadAddr(cpu, i) == wrapping_add(cpu.xregs[rs1(i)], imm_i(i))

exec_lb(cpu, i) ==
    IF ~InRange(LoadAddr(cpu, i), 8) THEN Fault(cpu)
    ELSE Ok(SetReg(cpu, rd(i),
                   Sar32(Shl32(bus_load(cpu.bus, LoadAddr(cpu, i), 8), 26), 26)))

exec_lh(cpu, i) ==
    IF ~InRange(LoadAddr(cpu, i), 16) THEN Fault(cpu)
    ELSE Ok(SetReg(cpu, rd(i),
                   Sar32(Shl32(bus_load(cpu.bus, LoadAddr(cpu, i), 16), 16), 16)))

exec_lw(cpu, i) ==
    IF ~InRange(LoadAddr(cpu, i), 32) THEN Fault(cpu)
    ELSE Ok(SetReg(cpu, rd(i), bus_load(cpu.bus, LoadAddr(cpu, i), 32)))

exec_lbu(cpu, i) ==
    IF ~InRange(LoadAddr(cpu, i), 8) THEN Fault(cpu)
    ELSE Ok(SetReg(cpu, rd(i), bus_load(cpu.bus, LoadAddr(cpu, i), 8)))

exec_lhu(cpu, i) ==
    IF ~InRange(LoadAddr(cpu, i), 16) THEN Fault(cpu)
    ELSE Ok(SetReg(cpu, rd(i), bus_load(cpu.bus, LoadAddr(cpu, i), 16)))

exec_lwu(cpu, i) ==
    IF ~InRange(LoadAddr(cpu, i), 32) THEN Fault(cpu)
    ELSE Ok(SetReg(cpu, rd(i), bus_load(cpu.bus, LoadAddr(cpu, i), 32)))

\* rs1 + imm_s, the effective address of a store.
StoreAddr(cpu, i) == wrapping_add(cpu.xregs[rs1(i)], imm_s(i))

exec_sb(cpu, i) ==
    IF ~InRange(StoreAddr(cpu, i), 8) THEN Fault(cpu)
    ELSE Ok([cpu EXCEPT !.bus = bus_store(cpu.bus, StoreAddr(cpu, i), 8,
                                          And32(cpu.xregs[rs2(i)], W(0, 255)))])

exec_sh(cpu, i) ==
    IF ~InRange(StoreAddr(cpu, i), 16) THEN Fault(cpu)
    ELSE Ok([cpu EXCEPT !.bus = bus_store(cpu.bus, StoreAddr(cpu, i), 16,
                                          And32(cpu.xregs[rs2(i)], W(0, 65535)))])

\* exec_sw handing the bus a 16-bit store, as exec_sh does.
exec_sw_half(cpu, i) ==
    IF ~InRange(StoreAddr(cpu, i), 32) THEN Fault(cpu)
    ELSE Ok([cpu EXCEPT !.bus = bus_store(cpu.bus, StoreAddr(cpu, i), 16,
                                          And32(cpu.xregs[rs2(i)], W(0, 65535)))])

exec_sw(cpu, i) ==
    IF ~InRange(StoreAddr(cpu, i), 32) THEN Fault(cpu)
    ELSE Ok([cpu EXCEPT !.bus = bus_store(cpu.bus, StoreAddr(cpu, i), 32,
                                          And32(cpu.xregs[rs2(i)], W(65535, 65535)))])

exec_addi(cpu, i) == Ok(SetReg(cpu, rd(i), wrapping_add(cpu.xregs[rs1(i)], imm_i(i))))

exec_slti(cpu, i) == Ok(SetReg(cpu, rd(i), Bool32(LtS(cpu.xregs[rs1(i)], imm_i(i)))))

exec_sltiu(cpu, i) == Ok(SetReg(cpu, rd(i), Bool32(LtU(cpu.xregs[rs1(i)], imm_i(i)))))

exec_xori(cpu, i) == Ok(SetReg(cpu, rd(i), Xor32(cpu.xregs[rs1(i)], imm_i(i))))

exec_ori(cpu, i) == Ok(SetReg(cpu, rd(i), Or32(cpu.xregs[rs1(i)], imm_i(i))))

exec_andi(cpu, i) == Ok(SetReg(cpu, rd(i), And32(cpu.xregs[rs1(i)], imm_i(i))))

exec_slli(cpu, i) == Ok(SetReg(cpu, rd(i), Shl32(cpu.xregs[rs1(i)], shamt(i))))

exec_srli(cpu, i) == Ok(SetReg(cpu, rd(i), Shr32(cpu.xregs[rs1(i)], Low5(imm_i(i)))))

exec_srai(cpu, i) == Ok(SetReg(cpu, rd(i), Sar32(cpu.xregs[rs1(i)], Low5(imm_i(i)))))

\* `a as i32 + b as i32` is a checked addition.
exec_add(cpu, i) ==
    IF overflow_checks /\ AddOverflowsI32(cpu.xregs[rs1(i)], cpu.xregs[rs2(i)])
    THEN Panic(cpu)
    ELSE Ok(SetReg(cpu, rd(i), wrapping_add(cpu.xregs[rs1(i)], cpu.xregs[rs2(i)])))

exec_sub(cpu, i) ==
    Ok(SetReg(cpu, rd(i), wrapping_sub(cpu.xregs[rs1(i)], cpu.xregs[rs2(i)])))

\* `<<` and `>>` by a register: a checked shift when the amount is not in 0..31,
\* a shift by the low 5 bits in a build without the checks.
ShiftOverflows(amount) == amount[1] # 0 \/ amount[2] >= 32

exec_sll(cpu, i) ==
    IF overflow_checks /\ ShiftOverflows(cpu.xregs[rs2(i)])
    THEN Panic(cpu)
    ELSE Ok(SetReg(cpu, rd(i), Shl32(cpu.xregs[rs1(i)], Low5(cpu.xregs[rs2(i)]))))

exec_slt(cpu, i) ==
    Ok(SetReg(cpu, rd(i), Bool32(LtS(cpu.xregs[rs1(i)], cpu.xregs[rs2(i)]))))

exec_sltu(cpu, i) ==
    Ok(SetReg(cpu, rd(i), Bool32(LtU(cpu.xregs[rs1(i)], cpu.xregs[rs2(i)]))))

exec_xor(cpu, i) == Ok(SetReg(cpu, rd(i), Xor32(cpu.xregs[rs1(i)], cpu.xregs[rs2(i)])))

exec_srl(cpu, i) ==
    IF overflow_checks /\ ShiftOverflows(cpu.xregs[rs2(i)])
    THEN Panic(cpu)
    ELSE Ok(SetReg(cpu, rd(i), Shr32(cpu.xregs[rs1(i)], Low5(cpu.xregs[rs2(i)]))))

exec_sra(cpu, i) ==
    IF overflow_checks /\ ShiftOverflows(cpu.xregs[rs2(i)])
    THEN Panic(cpu)
    ELSE Ok(SetReg(cpu, rd(i), Sar32(cpu.xregs[rs1(i)], Low5(cpu.xregs[rs2(i)]))))

exec_or(cpu, i) == Ok(SetReg(cpu, rd(i), Or32(cpu.xregs[rs1(i)], cpu.xregs[rs2(i)])))

exec_and(cpu, i) == Ok(SetReg(cpu, rd(i), And32(cpu.xregs[rs1(i)], cpu.xregs[rs2(i)])))

\* exec_fence, exec_ecall, exec_ebreak, exec_csrrw .. exec_csrrci: empty bodies.
exec_stub(cpu, i) == Ok(cpu)

\* CPU::execute: x0 is zeroed, then the routine is chosen by opcode, funct3 and
\* funct7; `panic!` arms abort, `_ => ()` arms return having done nothing more.
execute(cpu, i) ==
    LET opcode == Lo16(And32(i, W(0, 127)))
        funct3 == Bits(i, 12, 7)
        funct7 == Bits(i, 25, 127)
        c == SetReg(cpu, 0, Zero)
    IN  CASE opcode = LUI -> exec_lui(c, i)
          [] opcode = AUIPC -> exec_auipc(c, i)
          [] opcode = JAL -> exec_jal(c, i)
          [] opcode = JALR -> exec_jalr(c, i)
          [] opcode = B_TYPE ->
                CASE funct3 = BEQ -> exec_beq(c, i)
                  [] funct3 = BNE -> exec_bne(c, i)
                  [] funct3 = BLT -> exec_blt(c, i)
                  [] funct3 = BGE -> exec_bge(c, i)
                  [] funct3 = BLTU -> exec_bltu(c, i)
                  [] funct3 = BGEU -> exec_bgeu(c, i)
                  [] OTHER -> Panic(c)
          [] opcode = LOAD ->
                CASE funct3 = LB -> exec_lb(c, i)
                  [] funct3 = LH -> exec_lh(c, i)
                  [] funct3 = LW -> exec_lw(c, i)
                  [] funct3 = LBU -> exec_lbu(c, i)
                  [] funct3 = LHU -> exec_lhu(c, i)
                  [] funct3 = LWU -> exec_lwu(c, i)
                  [] OTHER -> Panic(c)
          [] opcode = S_TYPE ->
                CASE funct3 = SB -> exec_sb(c, i)
                  [] funct3 = SH -> exec_sh(c, i)
                  [] funct3 = SW -> exec_sw(c, i)
                  [] OTHER -> Panic(c)
          [] opcode = I_TYPE ->
                CASE funct3 = ADDI -> exec_addi(c, i)
                  [] funct3 = SLLI -> exec_slli(c, i)
                  [] funct3 = SLTI -> exec_slti(c, i)
                  [] funct3 = SLTIU -> exec_sltiu(c, i)
                  [] funct3 = XORI -> exec_xori(c, i)
                  [] funct3 = SRI ->
                        CASE funct7 = SRLI -> exec_srli(c, i)
                          [] funct7 = SRAI -> exec_srai(c, i)
                          [] OTHER -> Panic(c)
                  [] funct3 = ORI -> exec_ori(c, i)
                  [] funct3 = ANDI -> exec_andi(c, i)
                  [] OTHER -> Panic(c)
          [] opcode = R_TYPE ->
                CASE funct3 = ADDSUB ->
                        CASE funct7 = ADD -> exec_add(c, i)
                          [] funct7 = SUB -> exec_sub(c, i)
                          [] OTHER -> Ok(c)
                  [] funct3 = SLL -> exec_sll(c, i)
                  [] funct3 = SLT -> exec_slt(c, i)
                  [] funct3 = SLTU -> exec_sltu(c, i)
                  [] funct3 = XOR -> exec_xor(c, i)
                  [] funct3 = SR ->
                        CASE funct7 = SRL -> exec_srl(c, i)
                          [] funct7 = SRA -> exec_sra(c, i)
                          [] OTHER -> Ok(c)
                  [] funct3 = OR -> exec_or(c, i)
                  [] funct3 = AND -> exec_and(c, i)
                  [] OTHER -> Panic(c)
          [] opcode = FENCE -> exec_stub(c, i)
          [] opcode = CSR ->
                CASE funct3 = ECALL \/ funct3 = EBREAK ->
                        CASE imm_i(i) = W(0, 0) -> exec_stub(c, i)
                          [] imm_i(i) = W(0, 1) -> exec_stub(c, i)
                          [] OTHER -> Ok(c)
                  [] funct3 = CSRRW -> exec_stub(c, i)
                  [] funct3 = CSRRS -> exec_stub(c, i)
                  [] funct3 = CSRRC -> exec_stub(c, i)
                  [] funct3 = CSRRWI -> exec_stub(c, i)
                  [] funct3 = CSRRSI -> exec_stub(c, i)
                  [] funct3 = CSRRCI -> exec_stub(c, i)
                  [] OTHER -> Panic(c)
          [] OTHER -> Panic(c)

\* ---------------------------------------------------------------- encodings

\* A field placed at bit `sh` of the instruction word.
At(v, sh) == Shl32(Nat32(v), sh)

Or3(a, b, c) == Or32(a, Or32(b, c))

\* tests/helper.rs set_i_type_instruction: an I_TYPE word from a 16-bit immediate.
set_i_type_instruction(imm, r1, funct3, r) ==
    Or32(Or3(Shl32(And32(Int32(imm), W(0, 4095)), 20), At(r1 % 32, 15), At(funct3 % 8, 12)),
         Or32(At(r % 32, 7), W(0, I_TYPE % 128)))

\* tests/helper.rs set_u_type_instruction: `imm` carries the upper 20 bits in place.
set_u_type_instruction(imm, r, opcode) ==
    Or3(And32(imm, W(65535, 61440)), At(r % 32, 7), W(0, opcode % 128))

\* tests/helper.rs set_r_type_instruction: an R_TYPE word with funct3 = 0.
set_r_type_instruction(funct7, r2, r1, r) ==
    Or32(Or3(At(funct7 % 128, 25), At(r2 % 32, 20), At(r1 % 32, 15)),
         Or32(At(r % 32, 7), W(0, R_TYPE % 128)))

\* The R, I, S, B and J layouts for any opcode and funct3.
EncR(funct7, r2, r1, funct3, r, opcode) ==
    Or32(Or3(At(funct7, 25), At(r2, 20), At(r1, 15)),
         Or3(At(funct3, 12), At(r, 7), W(0, opcode)))

EncI(imm, r1, funct3, r, opcode) ==
    Or32(Or3(Shl32(And32(Int32(imm), W(0, 4095)), 20), At(r1, 15), At(funct3, 12)),
         Or32(At(r, 7), W(0, opcode)))

EncS(imm, r2, r1, funct3, opcode) ==
    LET m == Int32(imm)
    IN  Or32(Or3(Shl32(And32(Shr32(m, 5), W(0, 127)), 25), At(r2, 20), At(r1, 15)),
             Or3(At(funct3, 12), Shl32(And32(m, W(0, 31)), 7), W(0, opcode)))

EncB(imm, r2, r1, funct3) ==
    LET m == Int32(imm)
    IN  Or32(Or3(Shl32(And32(Shr32(m, 12), W(0, 1)), 31),
                 Shl32(And32(Shr32(m, 5), W(0, 63)), 25),
                 Shl32(And32(Shr32(m, 1), W(0, 15)), 8)),
             Or32(Or3(Shl32(And32(Shr32(m, 11), W(0, 1)), 7), At(r2, 20), At(r1, 15)),
                  Or32(At(funct3, 12), W(0, B_TYPE))))

EncJ(imm, r, opcode) ==
    LET m == Int32(imm)
    IN  Or32(Or3(Shl32(And32(Shr32(m, 20), W(0, 1)), 31),
                 Shl32(And32(Shr32(m, 1), W(0, 1023)), 21),
                 Shl32(And32(Shr32(m, 11), W(0, 1)), 20)),
             Or3(Shl32(And32(Shr32(m, 12), W(0, 255)), 12), At(r, 7), W(0, opcode)))

\* tests/helper.rs set_register_val: exec_addi called directly, not through execute.
set_register_val(cpu, r, val) == exec_addi(cpu, set_i_type_instruction(val, 0, 0, r))

\* ------------------------------------------------------------------- inputs

\* execute() calls in one run of the driving loop.
MaxSteps == 3

\* Instruction words offered to the loop that runs from a fresh CPU.
Prog ==
    { set_u_type_instruction(W(32768, 0), 1, LUI),        \* lui   x1, 0x80000
      set_i_type_instruction(5, 0, ADDI, 0),              \* addi  x0, x0, 5
      set_i_type_instruction(10, 0, ADDI, 5),             \* addi  x5, x0, 10
      set_i_type_instruction(-1, 1, ADDI, 1),             \* addi  x1, x1, -1
      set_r_type_instruction(ADD, 0, 2, 1),               \* add   x1, x2, x0
      EncS(-4, 2, 2, SW, S_TYPE),                         \* sw    x2, -4(x2)
      EncS(-4, 1, 2, SW, S_TYPE),                         \* sw    x1, -4(x2)
      EncS(-4, 5, 2, SB, S_TYPE),                         \* sb    x5, -4(x2)
      EncS(-8, 1, 2, SW, S_TYPE),                         \* sw    x1, -8(x2)
      EncS(0, 1, 2, SW, S_TYPE),                          \* sw    x1, 0(x2)
      EncI(-8, 2, LW, 5, LOAD),                           \* lw    x5, -8(x2)
      EncI(-4, 2, LW, 5, LOAD),                           \* lw    x5, -4(x2)
      EncI(-4, 2, LW, 0, LOAD),                           \* lw    x0, -4(x2)
      EncI(0, 0, 0, 0, FENCE),                            \* fence
      EncI(0, 0, ECALL, 0, CSR),                          \* ecall
      EncI(1, 0, EBREAK, 0, CSR),                         \* ebreak
      EncI(768, 1, CSRRW, 5, CSR),                        \* csrrw x5, 0x300, x1
      EncB(8, 0, 0, BEQ),                                 \* beq   x0, x0, 8
      EncB(-4, 5, 0, BNE),                                \* bne   x0, x5, -4
      EncJ(8, 1, JAL),                                    \* jal   x1, 8
      EncI(0, 1, 0, 0, JALR),                             \* jalr  x0, 0(x1)
      EncR(1, 3, 1, ADDSUB, 5, R_TYPE),                   \* funct7 = 1 under ADD/SUB
      Zero }                                              \* opcode 0

\* Values test code gives registers through set_register_val.
PresetVals == {<<1, -1>>, <<5, 10>>}

\* Register values, program counters and memory images a single execute() starts from.
Words ==
    { Zero, W(0, 1), W(0, 3), W(0, 32), W(0, 35), W(32767, 65535),
      W(32768, 0), W(32768, 256), W(65535, 65535) }

PCs == { MEM_BASE, W(0, 4), W(65535, 65532) }

Images == { <<32, 64, 127, 128, 255, 0, 18, 52>>, <<255, 127, 128, 0>> }

Image(p) == [o \in 0 .. MEM_SIZE - 1 |-> p[(o % Len(p)) + 1]]

BranchFuncts == {BEQ, BNE, BLT, BGE, BLTU, BGEU}

BranchInstrs ==
    { EncB(m, 3, 1, f) : m \in {8, -8, 4094, -4096}, f \in BranchFuncts }
    \cup { EncB(8, 0, 1, f) : f \in BranchFuncts }

JumpInstrs ==
    { EncJ(m, r, JAL) : m \in {8, -8}, r \in {0, 5} }
    \cup { EncI(m, 1, 0, r, JALR) : m \in {0, 1, -4}, r \in {0, 1, 5} }
    \cup { EncI(8, 0, 0, 5, JALR) }

LoadInstrs ==
    { EncI(m, 1, f, 5, LOAD) : m \in {0, 1, 3}, f \in {LB, LH, LW, LBU, LHU, LWU} }
    \cup { EncI(-4, 2, f, 5, LOAD) : f \in {LB, LH, LW, LBU, LHU, LWU} }

StoreInstrs ==
    { EncS(0, 3, 1, f, S_TYPE) : f \in {SB, SH, SW} }
    \cup { EncS(-4, 3, 2, f, S_TYPE) : f \in {SB, SH, SW} }

ImmInstrs ==
    { set_i_type_instruction(m, 1, f, 5) :
        m \in {-1, 5}, f \in {ADDI, SLTI, SLTIU, XORI, ORI, ANDI} }
    \cup { set_i_type_instruction(m, 1, SLLI, 5) : m \in {3, 35, 31} }
    \cup { set_i_type_instruction(m, 1, SRI, 5) : m \in {3, 31, 1024 + 3, 1024 + 31} }
    \cup { set_i_type_instruction(2047, 1, ADDI, 0) }

RegInstrs ==
    { EncR(0, 3, 1, f, 5, R_TYPE) : f \in {ADDSUB, SLL, SLT, SLTU, XOR, SR, OR, AND} }
    \cup { EncR(32, 3, 1, f, 5, R_TYPE) : f \in {ADDSUB, SR} }

UpperInstrs ==
    { set_u_type_instruction(m, 5, op) :
        m \in {W(4660, 20480), W(65535, 61440)}, op \in {LUI, AUIPC} }

StubInstrs ==
    { EncI(0, 0, 0, 0, FENCE), EncI(0, 0, ECALL, 0, CSR), EncI(1, 0, EBREAK, 0, CSR) }
    \cup { EncI(768, 1, f, 5, CSR) : f \in {CSRRW, CSRRS, CSRRC, CSRRWI, CSRRSI, CSRRCI} }

UndefinedInstrs ==
    { Zero,                                  \* opcode 0
      EncB(8, 3, 1, 2),                      \* funct3 = 2 under B_TYPE
      EncI(0, 1, 3, 5, LOAD),                \* funct3 = 3 under LOAD
      EncS(0, 3, 1, 3, S_TYPE),              \* funct3 = 3 under S_TYPE
      set_i_type_instruction(35, 1, SRI, 5), \* funct7 = 1 under SRLI/SRAI
      EncR(1, 3, 1, ADDSUB, 5, R_TYPE),      \* funct7 = 1 under ADD/SUB
      EncR(1, 3, 1, SR, 5, R_TYPE),          \* funct7 = 1 under SRL/SRA
      EncI(768, 1, 4, 5, CSR),               \* funct3 = 4 under CSR
      EncI(2, 0, ECALL, 0, CSR) }            \* funct3 = 0, immediate 2

AllInstrs ==
    BranchInstrs \cup JumpInstrs \cup LoadInstrs \cup StoreInstrs \cup ImmInstrs
    \cup RegInstrs \cup UpperInstrs \cup StubInstrs \cup UndefinedInstrs

\* ------------------------------------------------------------------ actions

IsStore(i, f) == Lo16(And32(i, W(0, 127))) = S_TYPE /\ Bits(i, 12, 7) = f

\* One call execute(i) by the driving loop.
ExecuteFrom(menu) ==
    /\ phase = "ready"
    /\ \E i \in menu :
        LET r == execute(cpu_now, i)
            c == SetReg(cpu_now, 0, Zero)
        IN  /\ xregs' = r.cpu.xregs
            /\ pc' = r.cpu.pc
            /\ bus' = r.cpu.bus
            /\ status' = r.status
            /\ phase' = IF r.status = "ok" THEN "executed" ELSE "aborted"
            /\ instr' = i
            /\ pre' = cpu_now
            /\ stored' = CASE r.status = "ok" /\ IsStore(i, SW) ->
                                <<StoreAddr(c, i), c.xregs[rs2(i)]>>
                           [] r.status = "ok" /\ (IsStore(i, SB) \/ IsStore(i, SH)) -> <<>>
                           [] OTHER -> stored
            /\ steps' = steps + 1
    /\ UNCHANGED overflow_checks

Execute == steps < MaxSteps /\ ExecuteFrom(Prog)

ExecuteOne == steps = 0 /\ ExecuteFrom(AllInstrs)

\* The driving loop's uniform pc += 4 after an execute() that returned.
Advance ==
    /\ phase = "executed"
    /\ pc' = wrapping_add(pc, W(0, 4))
    /\ phase' = "ready"
    /\ UNCHANGED <<xregs, bus, overflow_checks, status, instr, pre, stored, steps>>

\* Test code giving a register a value between two execute() calls.
SetRegisterVal ==
    /\ phase = "ready"
    /\ steps < MaxSteps
    /\ \E p \in PresetVals :
        LET r == set_register_val(cpu_now, p[1], p[2])
        IN  /\ xregs' = r.cpu.xregs
            /\ instr' = set_i_type_instruction(p[2], 0, 0, p[1])
    /\ status' = "none"
    /\ pre' = cpu_now
    /\ steps' = steps + 1
    /\ UNCHANGED <<pc, bus, overflow_checks, phase, stored>>

\* A freshly constructed CPU, in either build.
Init ==
    /\ xregs = new.xregs
    /\ pc = new.pc
    /\ bus = new.bus
    /\ overflow_checks \in BOOLEAN
    /\ phase = "ready"
    /\ status = "none"
    /\ instr = Zero
    /\ pre = new
    /\ stored = <<>>
    /\ steps = 0

Next == Execute \/ Advance \/ SetRegisterVal

Spec == Init /\ [][Next]_vars

\* A CPU that earlier instructions left with any values in x1 and x3, any pc and any
\* memory image, about to execute one instruction.
InitStep ==
    /\ \E a \in Words, b \in Words :
        xregs = [new.xregs EXCEPT ![1] = a, ![3] = b]
    /\ pc \in PCs
    /\ \E p \in Images : bus = Image(p)
    /\ overflow_checks \in BOOLEAN
    /\ phase = "ready"
    /\ status = "none"
    /\ instr = Zero
    /\ pre = [xregs |-> xregs, pc |-> pc, bus |-> bus]
    /\ stored = <<>>
    /\ steps = 0

NextStep == ExecuteOne \/ Advance

SpecStep == InitStep /\ [][NextStep]_vars

\* --------------------------------------------------------------- properties

Opcode(i) == Lo16(And32(i, W(0, 127)))

Funct3(i) == Bits(i, 12, 7)

Funct7(i) == Bits(i, 25, 127)

\* The RV32I table: the (opcode, funct3, funct7) combinations that name an instruction.
Defined(i) ==
    \/ Opcode(i) \in {LUI, AUIPC, JAL, JALR, FENCE}
    \/ Opcode(i) = B_TYPE /\ Funct3(i) \in {BEQ, BNE, BLT, BGE, BLTU, BGEU}
    \/ Opcode(i) = LOAD /\ Funct3(i) \in {LB, LH, LW, LBU, LHU, LWU}
    \/ Opcode(i) = S_TYPE /\ Funct3(i) \in {SB, SH, SW}
    \/ Opcode(i) = I_TYPE /\ (Funct3(i) # SRI \/ Funct7(i) \in {SRLI, SRAI})
    \/ Opcode(i) = R_TYPE /\ (Funct3(i) \notin {ADDSUB, SR} \/ Funct7(i) \in {0, 32})
    \/ Opcode(i) = CSR /\ Funct3(i) \in {CSRRW, CSRRS, CSRRC, CSRRWI, CSRRSI, CSRRCI}
    \/ Opcode(i) = CSR /\ Funct3(i) = 0 /\ imm_i(i) \in {W(0, 0), W(0, 1)}

IsBranch(i) == Opcode(i) = B_TYPE /\ Funct3(i) \in {BEQ, BNE, BLT, BGE, BLTU, BGEU}

IsStub(i) == Defined(i) /\ Opcode(i) \in {FENCE, CSR}

\* What an instruction reads from register r of the CPU it started from.
Read(c, r) == IF r = 0 THEN Zero ELSE c.xregs[r]

A1 == Read(pre, rs1(instr))

A2 == Read(pre, rs2(instr))

\* The branch condition of the last instruction.
Holds ==
    CASE Funct3(instr) = BEQ -> A1 = A2
      [] Funct3(instr) = BNE -> A1 # A2
      [] Funct3(instr) = BLT -> LtS(A1, A2)
      [] Funct3(instr) = BGE -> ~LtS(A1, A2)
      [] Funct3(instr) = BLTU -> LtU(A1, A2)
      [] Funct3(instr) = BGEU -> ~LtU(A1, A2)
      [] OTHER -> FALSE

Returned == phase = "executed" /\ status = "ok"

Advanced == phase = "ready" /\ status = "ok"

\* C1: an instruction word outside the RV32I table makes execute() report
\* IllegalInstruction to its caller; it neither aborts nor returns as if nothing
\* were wrong.
C1_UndefinedReportsIllegal ==
    (status # "none" /\ ~Defined(instr)) => status = "illegal"

\* C2: register 0 holds 0 in the state an execute() leaves, also right after an
\* instruction whose rd is 0.
C2_X0ZeroAfterExecute == status = "ok" => xregs[0] = Zero

\* C3: after a branch and the loop's pc += 4, pc is old pc + B-immediate (mod 2^32)
\* when the condition holds (signed for BLT/BGE, unsigned for BLTU/BGEU) and
\* old pc + 4 when it does not.
C3_BranchNetPc ==
    (Advanced /\ IsBranch(instr)) =>
        pc = IF Holds THEN wrapping_add(pre.pc, imm_b(instr))
                      ELSE wrapping_add(pre.pc, W(0, 4))

\* A BLT taken backwards from pc = 4 on a negative rs1 and a non-negative rs2 (an
\* unsigned comparison would not take it), the loop having advanced.
C3_Witness ==
    /\ Advanced
    /\ Opcode(instr) = B_TYPE /\ Funct3(instr) = BLT
    /\ IsNeg(A1) /\ ~IsNeg(A2)
    /\ pre.pc = W(0, 4)
    /\ imm_b(instr) = Int32(-8)
    /\ pc = W(65535, 65532)

\* C4: after a jump and the loop's pc += 4, pc is old pc + J-immediate for JAL and
\* (rs1 + I-immediate) with bit 0 cleared for JALR.
C4_JumpNetPc ==
    (Advanced /\ Opcode(instr) \in {JAL, JALR}) =>
        pc = IF Opcode(instr) = JAL
             THEN wrapping_add(pre.pc, imm_j(instr))
             ELSE And32(wrapping_add(A1, imm_i(instr)), W(65535, 65534))

\* The value the bus holds at the effective address of the last load, and its
\* sign extension from 8 and from 16 bits.
Loaded(width) == bus_load(pre.bus, wrapping_add(A1, imm_i(instr)), width)

Sext8(w) == IF w[2] >= 128 THEN W(65535, 65280 + w[2]) ELSE w

Sext16(w) == IF w[2] >= 32768 THEN W(65535, w[2]) ELSE w

\* C5: LB writes the sign extension of the byte at the effective address, LH that of
\* the half word, LBU and LHU the value zero-extended.
C5_LoadExtension ==
    (Returned /\ Opcode(instr) = LOAD /\ Funct3(instr) \in {LB, LH, LBU, LHU}) =>
        xregs[rd(instr)] =
            CASE Funct3(instr) = LB -> Sext8(Loaded(8))
              [] Funct3(instr) = LH -> Sext16(Loaded(16))
              [] Funct3(instr) = LBU -> Loaded(8)
              [] Funct3(instr) = LHU -> Loaded(16)

\* C6: an LW from the address of the last SW, no store in between, leaves rd equal
\* to the value rs2 held at the SW.
C6_StoreLoadRoundTrip ==
    ( /\ Returned
      /\ Opcode(instr) = LOAD /\ Funct3(instr) = LW
      /\ stored # <<>>
      /\ wrapping_add(A1, imm_i(instr)) = stored[1] ) =>
        xregs[rd(instr)] = stored[2]

\* An LW that returned 0xFFFFFFFF, stored before by an SW.
C6_Witness ==
    /\ Returned
    /\ Opcode(instr) = LOAD /\ Funct3(instr) = LW
    /\ stored # <<>>
    /\ wrapping_add(A1, imm_i(instr)) = stored[1]
    /\ stored[2] = W(65535, 65535)
    /\ xregs[rd(instr)] = W(65535, 65535)

IsAdd(i) == Opcode(i) = R_TYPE /\ Funct3(i) = ADDSUB /\ Funct7(i) = ADD

IsSub(i) == Opcode(i) = R_TYPE /\ Funct3(i) = ADDSUB /\ Funct7(i) = SUB

IsAddi(i) == Opcode(i) = I_TYPE /\ Funct3(i) = ADDI

\* C7: ADD, SUB and ADDI complete with the result reduced mod 2^32 whatever the
\* operands, and JAL/JALR with the return address pc + 4 reduced mod 2^32; none
\* signals overflow.
C7_ArithmeticWraps ==
    (status # "none"
     /\ (IsAdd(instr) \/ IsSub(instr) \/ IsAddi(instr) \/ Opcode(instr) \in {JAL, JALR})) =>
        /\ status = "ok"
        /\ Returned =>
            xregs[rd(instr)] =
                CASE IsAdd(instr) -> wrapping_add(A1, A2)
                  [] IsSub(instr) -> wrapping_sub(A1, A2)
                  [] IsAddi(instr) -> wrapping_add(A1, imm_i(instr))
                  [] OTHER -> wrapping_add(pre.pc, W(0, 4))

IsRegShift(i) ==
    Opcode(i) = R_TYPE /\ (Funct3(i) = SLL \/ (Funct3(i) = SR /\ Funct7(i) \in {SRL, SRA}))

IsImmShift(i) ==
    Opcode(i) = I_TYPE /\ (Funct3(i) = SLLI \/ (Funct3(i) = SRI /\ Funct7(i) \in {SRLI, SRAI}))

\* C8: every shift completes and shifts by the low 5 bits of its amount (rs2, or the
\* I-immediate field); SRA/SRAI replicate the sign bit, SRL/SRLI fill with zeros.
C8_ShiftsMaskAmount ==
    (status # "none" /\ (IsRegShift(instr) \/ IsImmShift(instr))) =>
        /\ status = "ok"
        /\ Returned =>
            LET n == IF IsRegShift(instr) THEN A2[2] % 32 ELSE imm_i(instr)[2] % 32
            IN  xregs[rd(instr)] =
                    CASE Funct3(instr) = SLL -> Shl32(A1, n)
                      [] Funct7(instr) = SRA -> Sar32(A1, n)
                      [] OTHER -> Shr32(A1, n)

\* C9: an instruction that is no jump and no branch leaves pc as it was, and a
\* FENCE / CSR-family / ECALL / EBREAK stub leaves every register and memory as
\* they were.
C9_NoControlFlowFrame ==
    (Returned /\ Defined(instr) /\ Opcode(instr) \notin {JAL, JALR, B_TYPE}) =>
        /\ pc = pre.pc
        /\ IsStub(instr) => (xregs = pre.xregs /\ bus = pre.bus)

\* C10: JALR jumps to (rs1 + I-immediate) & ~1 for the value rs1 held before the
\* instruction, also when rd = rs1, and writes old pc + 4 to rd.
C10_JalrReadsOldRs1 ==
    (Returned /\ Opcode(instr) = JALR) =>
        /\ pc = And32(wrapping_add(A1, imm_i(instr)), W(65535, 65534))
        /\ xregs[rd(instr)] = wrapping_add(pre.pc, W(0, 4))

====
